---- MODULE Spec2Model ----
(***************************************************************************)
(* WebProcessingServiceCatalogFunction (src/unnamed/part_000): the WPS     *)
(* parameter converters, the derivation of function parameters from a      *)
(* DescribeProcess document, and the Execute / status-polling state        *)
(* machine of handleExecuteResponse.                                       *)
(*                                                                         *)
(* Optional values (TypeScript `T | undefined`) are sequences of length    *)
(* at most one: <<>> is undefined, <<v>> is the defined value v.           *)
(* Strings that the code searches (indexOf, lastIndexOf, substring) are    *)
(* sequences of tokens; "#" is a token of its own and no other token       *)
(* contains it.                                                            *)
(*                                                                         *)
(* Collaborators outside this file are taken at their interface: the       *)
(* workbench is a set of item ids, setErrorOnPendingItem records the text  *)
(* it is given, item.loadMapItems() resolves, and a GET either resolves    *)
(* with a document or rejects.                                             *)
(***************************************************************************)
EXTENDS Integers, Sequences, FiniteSets, TLC

VARIABLES
  \* ---- the catalog function's traits and observable state
  identifier,          \* trait identifier (optional)
  url,                 \* trait url (optional)
  executeWithHttpGet,  \* trait executeWithHttpGet
  processDescription,  \* private observable processDescription (optional)
  \* ---- forceLoadMetadata
  mdPc,                \* "idle" | "awaiting" (the DescribeProcess GET is in flight)
  loadCalls,           \* number of calls of forceLoadMetadata()
  describeRequests,    \* number of DescribeProcess GETs issued
  mdThrown,            \* error the last forceLoadMetadata rejected with (optional)
  mdHandled,           \* the DescribeProcess document handled last (optional)
  \* ---- invoke
  invokeCalls,         \* number of calls of invoke()
  executeRequests,     \* Execute requests issued: sequence of "POST" / "GET"
  \* ---- the job: one pending item and the handling of its responses
  workbench,           \* terria.workbench: the set of the ids of its items
  pendingError,        \* error recorded on the pending item (optional)
  loadPromise,         \* pendingItem.loadPromise: url of the GET it tracks (optional)
  pc,                  \* position of the handleExecuteResponse chain
  timer,               \* the runLater callback scheduled, if any (optional)
  handled,             \* the document handleExecuteResponse handled last (optional)
  handledCount,        \* number of runs of handleExecuteResponse
  resultItem,          \* the WebProcessingServiceCatalogItem being created (optional)
  thrown,              \* error the chain rejected with (optional)
  statusGets,          \* urls of the status GETs issued, in order
  removedByUser,       \* whether the user removed the pending item from the workbench
  \* ---- conversion of inputs (pure functions applied to drawn inputs)
  input,               \* the input description under conversion
  parameter,           \* <<result>> of convertInputToParameter(input), <<>> before
  parameters,          \* <<result>> of reading functionParameters, <<>> before
  parameterValue,      \* parameter.value of the converted parameter (optional)
  wpsInput             \* <<result>> of convertParameterToInput(parameter), <<>> before

jobVars == <<workbench, pendingError, loadPromise, pc, timer, handled,
             handledCount, resultItem, thrown, statusGets, removedByUser>>
mdVars == <<processDescription, mdPc, loadCalls, describeRequests, mdThrown,
            mdHandled>>
invokeVars == <<invokeCalls, executeRequests>>
traitVars == <<identifier, url, executeWithHttpGet>>
convVars == <<input, parameter, parameters, parameterValue, wpsInput>>
vars == <<traitVars, mdVars, invokeVars, jobVars, convVars>>

-----------------------------------------------------------------------------
\* Optional values and strings

Undefined == <<>>
Some(v) == <<v>>
isDefined(x) == x # <<>>
Get(x) == x[1]

\* the outcome of a computation that can throw
Returned(v) == [threw |-> Undefined, value |-> v]
Threw(title) == [threw |-> Some(title), value |-> <<>>]

\* a || b on optional values whose defined values are truthy (objects)
OrElse(a, b) == IF isDefined(a) THEN a ELSE b

\* String.prototype.indexOf(sub): 0-based index of the first occurrence, else -1
indexOf(s, sub) ==
  LET hits == {i \in 1..(Len(s) - Len(sub) + 1) :
                 SubSeq(s, i, i + Len(sub) - 1) = sub}
  IN IF hits = {} THEN -1
     ELSE (CHOOSE i \in hits : \A j \in hits : i <= j) - 1

\* String.prototype.lastIndexOf(tok) for a one-token needle
lastIndexOf(s, tok) ==
  LET hits == {i \in 1..Len(s) : s[i] = tok}
  IN IF hits = {} THEN -1
     ELSE (CHOOSE i \in hits : \A j \in hits : i >= j) - 1

\* String.prototype.substring(from), from a 0-based index
substring(s, from) == SubSeq(s, from + 1, Len(s))

GEOJSON_SCHEMA_PREFIX == <<"http://geojson.org/geojson-spec.html", "#">>
DATETIME_SCHEMA == <<"http://www.w3.org/TR/xmlschema-2/", "#", "dateTime">>

-----------------------------------------------------------------------------
\* Function parameters: what a converter's inputToParameter constructs.
\* options = {id, name, description, isRequired, converter}

Options(in, isRequired, converter) ==
  [id |-> Get(in.Identifier), name |-> in.Name, description |-> in.Abstract,
   isRequired |-> isRequired, converter |-> converter]

NewParameter(variant, options, possibleValues, crs) ==
  [variant |-> variant, id |-> options.id, name |-> options.name,
   description |-> options.description, isRequired |-> options.isRequired,
   converter |-> options.converter,
   possibleValues |-> possibleValues, crs |-> crs]

\* input.ComplexData.Default.Format.Schema, undefined when any link is
SchemaOf(in) ==
  IF ~isDefined(in.ComplexData) THEN Undefined
  ELSE IF ~isDefined(Get(in.ComplexData).Default) THEN Undefined
  ELSE IF ~isDefined(Get(Get(in.ComplexData).Default).Format) THEN Undefined
  ELSE Get(Get(Get(in.ComplexData).Default).Format).Schema

LiteralDataConverter_inputToParameter(in, options) ==
  IF ~isDefined(in.LiteralData) THEN Undefined
  ELSE LET ld == Get(in.LiteralData)
           allowedValues == OrElse(ld.AllowedValues, ld.AllowedValue)
       IN IF isDefined(allowedValues) /\ isDefined(Get(allowedValues).Value)
          THEN LET v == Get(Get(allowedValues).Value)
               IN Some(NewParameter("enumeration", options,
                                    IF v.isArray THEN v.items ELSE <<v.items[1]>>,
                                    Undefined))
          ELSE IF isDefined(ld.AnyValue)
          THEN Some(NewParameter("string", options, <<>>, Undefined))
          ELSE Undefined

DateTimeConverter_inputToParameter(in, options) ==
  IF ~isDefined(SchemaOf(in)) THEN Undefined
  ELSE IF Get(SchemaOf(in)) # DATETIME_SCHEMA THEN Undefined
  ELSE Some(NewParameter("dateTime", options, <<>>, Undefined))

\* mutant: the geometry type after the last "#" is not compared
simpleGeoJsonDataConverter_AnyType(schemaType, variant, in, options) ==
  IF ~isDefined(SchemaOf(in)) THEN Undefined
  ELSE IF indexOf(Get(SchemaOf(in)), GEOJSON_SCHEMA_PREFIX) # 0 THEN Undefined
  ELSE Some(NewParameter(variant, options, <<>>, Undefined))

\* what simpleGeoJsonDataConverter(schemaType, klass).inputToParameter does
simpleGeoJsonDataConverter_inputToParameter(schemaType, variant, in, options) ==
  IF ~isDefined(SchemaOf(in)) THEN Undefined
  ELSE LET schema == Get(SchemaOf(in))
       IN IF indexOf(schema, GEOJSON_SCHEMA_PREFIX) # 0 THEN Undefined
          ELSE IF substring(schema, lastIndexOf(schema, "#") + 1) # <<schemaType>>
          THEN Undefined
          ELSE Some(NewParameter(variant, options, <<>>, Undefined))

PointConverter_inputToParameter(in, options) ==
  simpleGeoJsonDataConverter_inputToParameter("point", "point", in, options)

LineConverter_inputToParameter(in, options) ==
  simpleGeoJsonDataConverter_inputToParameter("linestring", "line", in, options)

PolygonConverter_inputToParameter(in, options) ==
  simpleGeoJsonDataConverter_inputToParameter("polygon", "polygon", in, options)

\* CRS strings are searched and case-folded, so they are token sequences too:
\* the spellings of a prefix or of a name that differ only in case are
\* different tokens.
EPSG_4326 == <<"EPSG:", "4326">>
EPSG_4326_LOWER == <<"epsg:", "4326">>
EPSG_3857 == <<"EPSG:", "3857">>
CRS84_URN == <<"urn:ogc:def:crs:OGC:1.3:", "CRS84">>
CRS84_URN_LOWER == <<"urn:ogc:def:crs:ogc:1.3:", "crs84">>
UNKNOWN_CRS == <<"unknown">>

\* String.prototype.toLowerCase
toLowerCase(s) ==
  [i \in 1..Len(s) |->
     CASE s[i] = "EPSG:" -> "epsg:"
       [] s[i] = "CRS84" -> "crs84"
       [] s[i] = "urn:ogc:def:crs:OGC:1.3:" -> "urn:ogc:def:crs:ogc:1.3:"
       [] OTHER -> s[i]]

\* String.prototype.toUpperCase, on the strings crsStringToCode applies it to
toUpperCase(s) ==
  [i \in 1..Len(s) |-> IF s[i] = "epsg:" THEN "EPSG:" ELSE s[i]]

TERRIA_CRS == Some(EPSG_4326)

\* Reproject.crsStringToCode: the EPSG code a CRS string denotes, if any.  The
\* string is compared in lower case: "epsg:<n>" in any case is EPSG:<n>, and a
\* string that contains "crs84" in any case is EPSG:4326.
crsStringToCode(crsString) ==
  LET crs == toLowerCase(crsString)
  IN IF indexOf(crs, <<"epsg:">>) = 0 THEN Some(toUpperCase(crs))
     ELSE IF indexOf(crs, <<"crs84">>) # -1 THEN Some(EPSG_4326)
     ELSE Undefined

RECURSIVE FirstTerriaCrs(_, _)
\* the loop of lines 493-502: index of the first supported CRS denoting Terria's
FirstTerriaCrs(list, i) ==
  IF i > Len(list) THEN 0
  ELSE IF crsStringToCode(list[i]) = TERRIA_CRS THEN i
  ELSE FirstTerriaCrs(list, i + 1)

RectangleConverter_inputToParameter(in, options) ==
  IF \/ ~isDefined(in.BoundingBoxData)
     \/ ~isDefined(Get(in.BoundingBoxData).Default)
     \/ ~isDefined(Get(Get(in.BoundingBoxData).Default).CRS)
  THEN Undefined
  ELSE LET bb == Get(in.BoundingBoxData)
           defaultCrs == Get(Get(bb.Default).CRS)
           code0 == crsStringToCode(defaultCrs)
           search == /\ code0 # TERRIA_CRS
                     /\ isDefined(bb.Supported)
                     /\ isDefined(Get(bb.Supported).CRS)
           hit == IF search THEN FirstTerriaCrs(Get(Get(bb.Supported).CRS), 1) ELSE 0
           code == IF hit > 0 THEN TERRIA_CRS ELSE code0
           usedCrs == IF hit > 0 THEN Get(Get(bb.Supported).CRS)[hit] ELSE defaultCrs
       IN IF ~isDefined(code) THEN Undefined
          ELSE Some(NewParameter("rectangle", options, <<>>, Some(usedCrs)))

GeoJsonGeometryConverter_inputToParameter(in, options) ==
  IF ~isDefined(SchemaOf(in)) THEN Undefined
  ELSE IF indexOf(Get(SchemaOf(in)), GEOJSON_SCHEMA_PREFIX) # 0 THEN Undefined
  ELSE Some(NewParameter("geojson", options, <<>>, Undefined))

\* mutant: the catch-all GeoJSON converter is tried before the geometry ones
parameterConverters_GeoJsonFirst ==
  <<"LiteralData", "DateTime", "GeoJsonGeometry", "Point", "Line", "Polygon",
    "Rectangle">>

\* readonly parameterConverters, in registry order
parameterConverters ==
  <<"LiteralData", "DateTime", "Point", "Line", "Polygon", "Rectangle",
    "GeoJsonGeometry">>

\* converter.inputToParameter(catalogFunction, input, options)
inputToParameter(converter, in, options) ==
  CASE converter = "LiteralData" -> LiteralDataConverter_inputToParameter(in, options)
    [] converter = "DateTime" -> DateTimeConverter_inputToParameter(in, options)
    [] converter = "Point" -> PointConverter_inputToParameter(in, options)
    [] converter = "Line" -> LineConverter_inputToParameter(in, options)
    [] converter = "Polygon" -> PolygonConverter_inputToParameter(in, options)
    [] converter = "Rectangle" -> RectangleConverter_inputToParameter(in, options)
    [] converter = "GeoJsonGeometry" ->
         GeoJsonGeometryConverter_inputToParameter(in, options)

RECURSIVE TryConverters(_, _, _, _)
\* the for loop of convertInputToParameter over a registry
TryConverters(registry, i, in, isRequired) ==
  IF i > Len(registry) THEN Undefined
  ELSE LET p == inputToParameter(registry[i], in,
                                 Options(in, isRequired, registry[i]))
       IN IF isDefined(p) THEN p
          ELSE TryConverters(registry, i + 1, in, isRequired)

IsRequired(in) == isDefined(in.minOccurs) /\ Get(in.minOccurs) > 0

convertInputToParameterWith(registry, in) ==
  IF ~isDefined(in.Identifier) THEN Undefined
  ELSE TryConverters(registry, 1, in, IsRequired(in))

convertInputToParameter(in) ==
  convertInputToParameterWith(parameterConverters, in)

-----------------------------------------------------------------------------
\* Serialization: parameterToInput of every converter.  A parameter's value is
\* held apart from the parameter (value is parameter.value, optional); angles
\* are in units of pi/4 radians; a serialized value is a sequence of tokens.

\* WpsInputData
WpsInputData(inputValue, inputType) ==
  [inputValue |-> inputValue, inputType |-> inputType]

\* CesiumMath.toDegrees
toDegrees(radians) == radians * 45

LiteralDataConverter_parameterToInput(p, value) ==
  Returned(Some(WpsInputData(value, "LiteralData")))

\* DateTimeParameter.formatValueForUrl: the JSON text around the date string
DateTimeParameter_formatValueForUrl(text) ==
  <<"{", "date-time", ":">> \o text \o <<"}">>

DateTimeConverter_parameterToInput(p, value) ==
  Returned(Some(WpsInputData(
    Some(DateTimeParameter_formatValueForUrl(
           IF isDefined(value) THEN Get(value) ELSE <<>>)),
    "ComplexData")))

\* PointParameter.getGeoJsonFeature
PointParameter_getGeoJsonFeature(value) ==
  [type |-> "Feature",
   geometry |-> [type |-> "Point",
                 coordinates |-> <<toDegrees(value.longitude),
                                   toDegrees(value.latitude), value.height>>]]

\* PointParameter.formatValueForUrl: JSON.stringify of the feature collection;
\* reading value.longitude of an undefined value throws a TypeError
PointParameter_formatValueForUrl(value) ==
  IF ~isDefined(value) THEN Threw("TypeError")
  ELSE LET feature == PointParameter_getGeoJsonFeature(Get(value))
       IN Returned(Some(<<"FeatureCollection", feature.type, feature.geometry.type,
                          ToString(feature.geometry.coordinates[1]), ",",
                          ToString(feature.geometry.coordinates[2]), ",",
                          ToString(feature.geometry.coordinates[3])>>))

\* LineParameter.formatValueForUrl and PolygonParameter.formatValueForUrl:
\* JSON.stringify of a feature collection around the coordinates
GeometryParameter_formatValueForUrl(geometryType, value) ==
  Returned(Some(<<"FeatureCollection", "Feature", geometryType>>
                  \o (IF isDefined(value) THEN Get(value) ELSE <<>>)))

\* klass.formatValueForUrl(parameter.value) of simpleGeoJsonDataConverter
formatValueForUrl(variant, value) ==
  CASE variant = "point" -> PointParameter_formatValueForUrl(value)
    [] variant = "line" -> GeometryParameter_formatValueForUrl("LineString", value)
    [] variant = "polygon" -> GeometryParameter_formatValueForUrl("Polygon", value)

\* what simpleGeoJsonDataConverter(schemaType, klass).parameterToInput does
simpleGeoJsonDataConverter_parameterToInput(variant, p, value) ==
  LET formatted == formatValueForUrl(variant, value)
  IN IF isDefined(formatted.threw) THEN formatted
     ELSE Returned(Some(WpsInputData(formatted.value, "ComplexData")))

URN_CRS84 == <<"urn:ogc:def:crs:OGC:1.3:", "CRS84">>
URN_EPSG_4326 == <<"urn:ogc:def:crs:EPSG:6.6:", "4326">>

\* c1 + "," + c2 + "," + c3 + "," + c4 + "," + urn
BoundingBoxValue(c1, c2, c3, c4, urn) ==
  <<ToString(c1), ",", ToString(c2), ",", ToString(c3), ",", ToString(c4), ",">>
    \o urn

RectangleConverter_parameterToInput(p, value) ==
  IF ~isDefined(value) THEN Returned(Undefined)
  ELSE LET v == Get(value)
       IN IF indexOf(Get(p.crs), <<"crs84">>) # -1
          THEN Returned(Some(WpsInputData(
                 Some(BoundingBoxValue(toDegrees(v.west), toDegrees(v.south),
                                       toDegrees(v.east), toDegrees(v.north),
                                       URN_CRS84)),
                 "BoundingBoxData")))
          ELSE Returned(Some(WpsInputData(
                 Some(BoundingBoxValue(toDegrees(v.south), toDegrees(v.west),
                                       toDegrees(v.north), toDegrees(v.east),
                                       URN_EPSG_4326)),
                 "BoundingBoxData")))

\* GeoJsonParameter.getProcessedValue: the value serialized by its subtype, as
\* ComplexData; nothing for a subtype it does not know
GeoJsonParameter_getProcessedValue(v) ==
  IF v.subtype = "point"
  THEN LET formatted == PointParameter_formatValueForUrl(Some(v.value))
       IN Some(WpsInputData(formatted.value, "ComplexData"))
  ELSE IF v.subtype = "polygon"
  THEN Some(WpsInputData(
              GeometryParameter_formatValueForUrl("Polygon", Some(v.value)).value,
              "ComplexData"))
  ELSE Undefined

GeoJsonGeometryConverter_parameterToInput(p, value) ==
  IF ~isDefined(value) THEN Returned(Undefined)
  ELSE Returned(GeoJsonParameter_getProcessedValue(Get(value)))

\* converter.parameterToInput(parameter)
parameterToInput(converter, p, value) ==
  CASE converter = "LiteralData" -> LiteralDataConverter_parameterToInput(p, value)
    [] converter = "DateTime" -> DateTimeConverter_parameterToInput(p, value)
    [] converter = "Point" -> simpleGeoJsonDataConverter_parameterToInput("point", p, value)
    [] converter = "Line" -> simpleGeoJsonDataConverter_parameterToInput("line", p, value)
    [] converter = "Polygon" ->
         simpleGeoJsonDataConverter_parameterToInput("polygon", p, value)
    [] converter = "Rectangle" -> RectangleConverter_parameterToInput(p, value)
    [] converter = "GeoJsonGeometry" ->
         GeoJsonGeometryConverter_parameterToInput(p, value)

\* mutant: the parameter is serialized with the first converter of the registry
ConverterOf_FirstRegistered(p) == parameterConverters[1]

\* let converter = <ParameterConverter>parameter.converter
ConverterOf(p) == p.converter

\* convertParameterToInput(parameter): the input of the Execute request, nothing
\* when the converter or its inputValue is undefined, or the error thrown
convertParameterToInput(p, value) ==
  LET result == parameterToInput(ConverterOf(p), p, value)
  IN IF isDefined(result.threw) THEN result
     ELSE IF ~isDefined(result.value) THEN Returned(Undefined)
     ELSE IF ~isDefined(Get(result.value).inputValue) THEN Returned(Undefined)
     ELSE Returned(Some([inputIdentifier |-> p.id,
                         inputValue |-> Get(Get(result.value).inputValue),
                         inputType |-> Get(result.value).inputType]))

-----------------------------------------------------------------------------
\* The computed properties over processDescription.  A computation that can
\* throw yields a Returned or a Threw record.

\* @computed get inputs()
inputs(pd) ==
  IF ~isDefined(pd) THEN Returned(<<>>)
  ELSE LET dataInputs == Get(pd).DataInputs
       IN IF ~isDefined(dataInputs) \/ ~isDefined(Get(dataInputs).Input)
          THEN Threw("models.webProcessingService.processInputErrorTitle")
          ELSE LET in == Get(Get(dataInputs).Input)
               IN Returned(IF in.isArray THEN in.items ELSE <<in.items[1]>>)

RECURSIVE MapInputs_SkipsUnsupported(_, _, _)
\* mutant: an unsupported input is left out instead of failing
MapInputs_SkipsUnsupported(list, i, acc) ==
  IF i > Len(list) THEN Returned(acc)
  ELSE LET p == convertInputToParameter(list[i])
       IN IF isDefined(p)
          THEN MapInputs_SkipsUnsupported(list, i + 1, Append(acc, Get(p)))
          ELSE MapInputs_SkipsUnsupported(list, i + 1, acc)

RECURSIVE MapInputs(_, _, _)
\* this.inputs.map(input => ...): stops at the first input that throws
MapInputs(list, i, acc) ==
  IF i > Len(list) THEN Returned(acc)
  ELSE LET p == convertInputToParameter(list[i])
       IN IF isDefined(p) THEN MapInputs(list, i + 1, Append(acc, Get(p)))
          ELSE Threw("Unsupported parameter type")

\* @computed({ keepAlive: true }) get functionParameters()
functionParameters(pd) ==
  LET ins == inputs(pd)
  IN IF isDefined(ins.threw) THEN ins ELSE MapInputs(ins.value, 1, <<>>)

\* @computed get storeSupported()
storeSupported(pd) == isDefined(pd) /\ Get(pd).storeSupported = Some("true")

\* @computed get statusSupported()
statusSupported(pd) == isDefined(pd) /\ Get(pd).statusSupported = Some("true")

-----------------------------------------------------------------------------
\* Input descriptions a DescribeProcess document can carry (type Input)

MaxInputs == 3

Identifiers == {Undefined, Some("in1"), Some("in2")}
MinOccursValues == {Undefined, Some(0), Some(1)}

AllowedValuesOf(value) == Some([Value |-> value])
ArrayValue == Some([isArray |-> TRUE, items |-> <<"a", "b">>])
SingleValue == Some([isArray |-> FALSE, items |-> <<"a">>])

LiteralDatas ==
  {Undefined,
   Some([AllowedValues |-> AllowedValuesOf(ArrayValue), AllowedValue |-> Undefined,
         AnyValue |-> Undefined]),
   Some([AllowedValues |-> Undefined, AllowedValue |-> AllowedValuesOf(SingleValue),
         AnyValue |-> Undefined]),
   Some([AllowedValues |-> AllowedValuesOf(Undefined),
         AllowedValue |-> AllowedValuesOf(SingleValue), AnyValue |-> Some("any")]),
   Some([AllowedValues |-> Undefined, AllowedValue |-> Undefined,
         AnyValue |-> Some("any")]),
   Some([AllowedValues |-> Undefined, AllowedValue |-> Undefined,
         AnyValue |-> Undefined])}

ComplexDataOf(schema) ==
  Some([Default |-> Some([Format |-> Some([Schema |-> schema])])])

Schemas ==
  {DATETIME_SCHEMA,
   GEOJSON_SCHEMA_PREFIX \o <<"point">>,
   GEOJSON_SCHEMA_PREFIX \o <<"linestring">>,
   GEOJSON_SCHEMA_PREFIX \o <<"polygon">>,
   GEOJSON_SCHEMA_PREFIX \o <<"multipolygon">>,
   GEOJSON_SCHEMA_PREFIX \o <<"point", "#", "polygon">>,
   GEOJSON_SCHEMA_PREFIX,
   <<"x">> \o GEOJSON_SCHEMA_PREFIX \o <<"point">>,
   <<"http://www.w3.org/TR/xmlschema-2/", "#", "point">>}

ComplexDatas ==
  {Undefined,
   Some([Default |-> Undefined]),
   Some([Default |-> Some([Format |-> Undefined])]),
   ComplexDataOf(Undefined)}
  \cup {ComplexDataOf(Some(s)) : s \in Schemas}

BoundingBoxOf(default, supported) ==
  Some([Default |-> Some([CRS |-> default]), Supported |-> supported])

BoundingBoxDatas ==
  {Undefined,
   Some([Default |-> Undefined, Supported |-> Undefined]),
   BoundingBoxOf(Undefined, Undefined),
   BoundingBoxOf(Some(EPSG_4326), Undefined),
   BoundingBoxOf(Some(EPSG_4326_LOWER), Undefined),
   BoundingBoxOf(Some(CRS84_URN), Some([CRS |-> Undefined])),
   BoundingBoxOf(Some(CRS84_URN_LOWER), Some([CRS |-> Some(<<EPSG_4326>>)])),
   BoundingBoxOf(Some(EPSG_3857),
                 Some([CRS |-> Some(<<EPSG_3857, CRS84_URN, EPSG_4326>>)])),
   BoundingBoxOf(Some(EPSG_3857), Some([CRS |-> Some(<<CRS84_URN_LOWER>>)])),
   BoundingBoxOf(Some(EPSG_3857), Undefined),
   BoundingBoxOf(Some(UNKNOWN_CRS), Some([CRS |-> Some(<<UNKNOWN_CRS, EPSG_4326>>)])),
   BoundingBoxOf(Some(UNKNOWN_CRS), Some([CRS |-> Some(<<EPSG_3857>>)]))}

NewInput(id, minOccurs, literal, complex, bbox) ==
  [Identifier |-> id, Name |-> Some("Name"), Abstract |-> Some("Abstract"),
   LiteralData |-> literal, ComplexData |-> complex, BoundingBoxData |-> bbox,
   minOccurs |-> minOccurs]

Inputs ==
  {NewInput(id, mo, l, c, b) :
     id \in Identifiers, mo \in MinOccursValues, l \in LiteralDatas,
     c \in ComplexDatas, b \in BoundingBoxDatas}

\* a few inputs, of every outcome, for process descriptions with several inputs
AnyValueLiteral == Some([AllowedValues |-> Undefined, AllowedValue |-> Undefined,
                         AnyValue |-> Some("any")])
SampleInputs ==
  {NewInput(Some("in1"), Some(1), AnyValueLiteral, Undefined, Undefined),
   NewInput(Some("in2"), Undefined, Undefined,
            ComplexDataOf(Some(GEOJSON_SCHEMA_PREFIX \o <<"point">>)), Undefined),
   NewInput(Some("in3"), Some(0), Undefined, Undefined,
            BoundingBoxOf(Some(EPSG_4326), Undefined)),
   NewInput(Some("in4"), Undefined, Undefined, ComplexDataOf(Some(<<"text/xml">>)),
            Undefined),
   NewInput(Undefined, Undefined, AnyValueLiteral, Undefined, Undefined)}

NewProcessDescription(dataInputs) ==
  Some([DataInputs |-> dataInputs, storeSupported |-> Some("true"),
        statusSupported |-> Some("true")])

InputLists == UNION {[1..n -> SampleInputs] : n \in 0..MaxInputs}

\* process descriptions whose functionParameters the conversion runs compute
ConvDescriptions ==
  {Undefined, NewProcessDescription(Undefined),
   NewProcessDescription(Some([Input |-> Undefined]))}
  \cup {NewProcessDescription(Some([Input |-> Some([isArray |-> TRUE, items |-> l])])) :
          l \in InputLists}
  \cup {NewProcessDescription(Some([Input |-> Some([isArray |-> FALSE, items |-> <<i>>])])) :
          i \in SampleInputs}

-----------------------------------------------------------------------------
\* XML documents a server can answer with, as xml2json presents them.
\* xml = Undefined is a missing document; root = Undefined is a document
\* without documentElement.

NewDocument(root, status, statusLocation, description) ==
  Some([root |-> root, Status |-> status, statusLocation |-> statusLocation,
        ProcessDescription |-> description])

NewStatus(failed, succeeded) ==
  Some([ProcessFailed |-> failed, ProcessSucceeded |-> succeeded])

FailedWith(exceptionText, exception) ==
  Some([ExceptionReport |->
          Some([Exception |->
                  Some([ExceptionText |-> exceptionText, Exception |-> exception])])])

Statuses ==
  {Undefined,
   NewStatus(Undefined, Undefined),
   NewStatus(Undefined, Some("done")),
   NewStatus(FailedWith(Some("boom"), Some("inner")), Undefined),
   NewStatus(FailedWith(Some(""), Some("inner")), Undefined),
   NewStatus(Some([ExceptionReport |-> Undefined]), Undefined),
   NewStatus(FailedWith(Some("boom"), Undefined), Some("done"))}

StatusLocations == {Undefined, Some("status1"), Some("status2")}

ExecuteDocuments ==
  {Undefined,
   NewDocument(Undefined, Undefined, Undefined, Undefined),
   NewDocument(Some("ExceptionReport"), NewStatus(Undefined, Some("done")),
               Some("status1"), Undefined)}
  \cup {NewDocument(Some("ExecuteResponse"), st, loc, Undefined) :
          st \in Statuses, loc \in StatusLocations}

\* process descriptions a DescribeProcess response can carry in the job runs
PointInput ==
  NewInput(Some("in2"), Undefined, Undefined,
           ComplexDataOf(Some(GEOJSON_SCHEMA_PREFIX \o <<"point">>)), Undefined)
UnsupportedInput ==
  NewInput(Some("in4"), Undefined, Undefined, ComplexDataOf(Some(<<"text/xml">>)),
           Undefined)
ArrayOf(list) == Some([Input |-> Some([isArray |-> TRUE, items |-> list])])

JobDescriptions ==
  {NewProcessDescription(ArrayOf(<<PointInput>>)),
   NewProcessDescription(ArrayOf(<<PointInput, UnsupportedInput>>)),
   NewProcessDescription(Undefined)}

DescribeDocuments ==
  {Undefined,
   NewDocument(Some("ExecuteResponse"), Undefined, Undefined,
               NewProcessDescription(ArrayOf(<<PointInput>>))),
   NewDocument(Some("ProcessDescriptions"), Undefined, Undefined, Undefined)}
  \cup {NewDocument(Some("ProcessDescriptions"), Undefined, Undefined, d) :
          d \in JobDescriptions}

\* mutant: accepts any root element name
BadRoot_AnyName(xml, name) ==
  \/ ~isDefined(xml)
  \/ ~isDefined(Get(xml).root)

\* !xml || !xml.documentElement || xml.documentElement.localName !== name
BadRoot(xml, name) ==
  \/ ~isDefined(xml)
  \/ ~isDefined(Get(xml).root)
  \/ Get(Get(xml).root) # name

\* what throwInvalidWpsServerError(this, endpoint) throws
InvalidWpsServerError(endpoint) ==
  [title |-> "models.webProcessingService.invalidWPSServerTitle",
   message |-> "models.webProcessingService.invalidWPSServerMessage",
   endpoint |-> Some(endpoint)]

NewError(title, message) ==
  [title |-> title, message |-> message, endpoint |-> Undefined]

-----------------------------------------------------------------------------
\* The job: the pending item handed to handleExecuteResponse

MaxPolls == 2
MaxLoads == 2
MaxInvokes == 2

PollDelay == 500

PendingItem == [uniqueId |-> "job1", name |-> "Buffer 1", description |-> "pending job"]
PendingId == <<PendingItem.uniqueId>>

\* e?.ExceptionText || e?.Exception, with e = ProcessFailed.ExceptionReport?.Exception
ExceptionTextOf(failed) ==
  LET report == failed.ExceptionReport
      e == IF isDefined(report) THEN Get(report).Exception ELSE Undefined
      text == IF isDefined(e) THEN Get(e).ExceptionText ELSE Undefined
      inner == IF isDefined(e) THEN Get(e).Exception ELSE Undefined
  IN IF isDefined(text) /\ Get(text) # "" THEN text ELSE inner

\* CatalogFunctionMixin.setErrorOnPendingItem(pendingItem, errorMessage)
setErrorOnPendingItem(errorMessage) ==
  pendingError' = Some([message |-> errorMessage])

\* mutant: the result item takes the pending item's id
createCatalogItem_PendingId(wpsResponse) ==
  LET fp == functionParameters(processDescription)
  IN IF isDefined(fp.threw) THEN Threw(Get(fp.threw))
     ELSE Returned([id |-> <<PendingItem.uniqueId>>,
                    name |-> PendingItem.name,
                    description |-> PendingItem.description,
                    wpsResponse |-> wpsResponse,
                    parameters |-> [i \in 1..Len(fp.value) |-> fp.value[i].name]])

\* createCatalogItem up to its first await: the item, or the error that reading
\* this.functionParameters throws
createCatalogItem(wpsResponse) ==
  LET fp == functionParameters(processDescription)
  IN IF isDefined(fp.threw) THEN Threw(Get(fp.threw))
     ELSE Returned([id |-> <<"result-", PendingItem.uniqueId>>,
                    name |-> PendingItem.name,
                    description |-> PendingItem.description,
                    wpsResponse |-> wpsResponse,
                    parameters |-> [i \in 1..Len(fp.value) |-> fp.value[i].name]])

\* mutant: ProcessSucceeded is looked at before ProcessFailed
StatusBranch_SucceededFirst(status) ==
  IF isDefined(status.ProcessSucceeded) THEN "succeeded"
  ELSE IF isDefined(status.ProcessFailed) THEN "failed"
  ELSE "other"

\* which branch of lines 304-322 a defined Status takes
StatusBranch(status) ==
  IF isDefined(status.ProcessFailed) THEN "failed"
  ELSE IF isDefined(status.ProcessSucceeded) THEN "succeeded"
  ELSE "other"

\* mutant: polls again without looking at the workbench
ShouldPoll_NoWorkbenchCheck(json) ==
  isDefined(json.statusLocation)

\* the condition under which the response is polled again
ShouldPoll(json) ==
  isDefined(json.statusLocation) /\ PendingId \in workbench

\* runLater(async () => { this.getXml(json.statusLocation) ... }, 500)
ScheduledPoll(json) ==
  Some([delay |-> PollDelay, url |-> Get(json.statusLocation)])

\* mutant: the pending item is left in the workbench
WorkbenchAfterSuccess_KeepsPending(item) ==
  workbench \cup {item.id}

\* this.terria.workbench.add(item); this.terria.workbench.remove(pendingItem)
WorkbenchAfterSuccess(item) ==
  (workbench \cup {item.id}) \ {PendingId}

\* mutant: a response without Status is reported on the pending item as a
\* failed execution instead of being thrown
throwInvalidResponseError_MarksPending ==
  /\ setErrorOnPendingItem(Undefined)
  /\ pc' = "done"
  /\ UNCHANGED <<workbench, timer, resultItem, thrown>>

\* throw new TerriaError({title: invalidResponseErrorTitle, ...}) of lines 283-302
throwInvalidResponseError ==
  /\ thrown' = Some(NewError(
                      "models.webProcessingService.invalidResponseErrorTitle",
                      "models.webProcessingService.invalidResponseErrorMessage"))
  /\ pc' = "rejected"
  /\ UNCHANGED <<workbench, pendingError, timer, resultItem>>

\* handleExecuteResponse(xml, pendingItem), up to its first await or its return
handleExecuteResponse(xml) ==
  /\ handled' = Some(xml)
  /\ handledCount' = handledCount + 1
  /\ IF BadRoot(xml, "ExecuteResponse")
     THEN /\ thrown' = Some(InvalidWpsServerError("ExecuteResponse"))
          /\ pc' = "rejected"
          /\ UNCHANGED <<workbench, pendingError, timer, resultItem>>
     ELSE LET json == Get(xml)
              status == json.Status
          IN IF ~isDefined(status)
             THEN throwInvalidResponseError
             ELSE IF StatusBranch(Get(status)) = "failed"
             THEN /\ setErrorOnPendingItem(
                       ExceptionTextOf(Get(Get(status).ProcessFailed)))
                  /\ pc' = "done"
                  /\ UNCHANGED <<workbench, timer, resultItem, thrown>>
             ELSE IF StatusBranch(Get(status)) = "succeeded"
             THEN LET item == createCatalogItem(json)
                  IN IF isDefined(item.threw)
                     THEN /\ thrown' = Some(NewError(Get(item.threw), ""))
                          /\ pc' = "rejected"
                          /\ UNCHANGED <<workbench, pendingError, timer, resultItem>>
                     ELSE /\ resultItem' = Some(item.value)
                          /\ pc' = "creating"
                          /\ UNCHANGED <<workbench, pendingError, timer, thrown>>
             ELSE IF ShouldPoll(json)
             THEN /\ timer' = ScheduledPoll(json)
                  /\ pc' = "polling"
                  /\ UNCHANGED <<workbench, pendingError, resultItem, thrown>>
             ELSE /\ pc' = "done"
                  /\ UNCHANGED <<workbench, pendingError, timer, resultItem, thrown>>

\* whether handling xml would schedule a poll (bounds what the server answers)
NonTerminal(xml) ==
  /\ ~BadRoot(xml, "ExecuteResponse")
  /\ isDefined(Get(xml).Status)
  /\ ~isDefined(Get(Get(xml).Status).ProcessFailed)
  /\ ~isDefined(Get(Get(xml).Status).ProcessSucceeded)

\* the caller puts the pending item in the workbench before the response is handled
WorkbenchAddPending ==
  /\ pc = "notStarted"
  /\ PendingId \notin workbench
  /\ workbench' = workbench \cup {PendingId}
  /\ UNCHANGED <<traitVars, mdVars, invokeVars, convVars, pendingError, loadPromise,
                 pc, timer, handled, handledCount, resultItem, thrown, statusGets,
                 removedByUser>>

\* the user removes the pending item from the workbench
UserRemovesPending ==
  /\ PendingId \in workbench
  /\ workbench' = workbench \ {PendingId}
  /\ removedByUser' = TRUE
  /\ UNCHANGED <<traitVars, mdVars, invokeVars, convVars, pendingError, loadPromise,
                 pc, timer, handled, handledCount, resultItem, thrown, statusGets>>

\* the Execute response arrives and the owner of the pending item passes it to
\* handleExecuteResponse (invoke, as written, never does)
ExecuteResponseArrives ==
  /\ pc = "notStarted"
  /\ \E xml \in ExecuteDocuments : handleExecuteResponse(xml)
  /\ UNCHANGED <<traitVars, mdVars, invokeVars, convVars, loadPromise, statusGets,
                 removedByUser>>

\* the runLater callback runs: the GET to the status location is issued
RunLaterFires ==
  /\ pc = "polling"
  /\ statusGets' = Append(statusGets, Get(timer).url)
  /\ loadPromise' = Some(Get(timer).url)
  /\ timer' = Undefined
  /\ pc' = "getting"
  /\ UNCHANGED <<traitVars, mdVars, invokeVars, convVars, workbench, pendingError,
                 handled, handledCount, resultItem, thrown, removedByUser>>

\* the status GET resolves and its document is handled by the same procedure
StatusResponseArrives ==
  /\ pc = "getting"
  /\ \E xml \in ExecuteDocuments :
       /\ NonTerminal(xml) => Len(statusGets) < MaxPolls
       /\ handleExecuteResponse(xml)
  /\ UNCHANGED <<traitVars, mdVars, invokeVars, convVars, loadPromise, statusGets,
                 removedByUser>>

\* the status GET fails: the promise of getXml rejects
StatusGetRejects ==
  /\ pc = "getting"
  /\ pc' = "rejected"
  /\ thrown' = Some(NewError("RequestErrorEvent", ""))
  /\ UNCHANGED <<traitVars, mdVars, invokeVars, convVars, workbench, pendingError,
                 loadPromise, timer, handled, handledCount, resultItem, statusGets,
                 removedByUser>>

\* createCatalogItem and item.loadMapItems() resolved: the result item replaces
\* the pending item
AddResultToWorkbench ==
  /\ pc = "creating"
  /\ workbench' = WorkbenchAfterSuccess(Get(resultItem))
  /\ pc' = "done"
  /\ UNCHANGED <<traitVars, mdVars, invokeVars, convVars, pendingError, loadPromise,
                 timer, handled, handledCount, resultItem, thrown, statusGets,
                 removedByUser>>

-----------------------------------------------------------------------------
\* Metadata and invoke

\* @computed get describeProcessUrl()
describeProcessUrl ==
  IF ~isDefined(url) \/ ~isDefined(identifier) THEN Undefined
  ELSE Some(<<Get(url), "DescribeProcess", Get(identifier)>>)

\* @computed get executeUrl()
executeUrl ==
  IF ~isDefined(url) THEN Undefined ELSE Some(<<Get(url), "Execute">>)

\* forceLoadMetadata() up to its await
ForceLoadMetadata ==
  /\ mdPc = "idle"
  /\ loadCalls < MaxLoads
  /\ loadCalls' = loadCalls + 1
  /\ IF ~isDefined(describeProcessUrl)
     THEN UNCHANGED <<processDescription, mdPc, describeRequests, mdThrown,
                      mdHandled>>
     ELSE /\ describeRequests' = describeRequests + 1
          /\ mdPc' = "awaiting"
          /\ mdThrown' = Undefined
          /\ mdHandled' = Undefined
          /\ UNCHANGED processDescription
  /\ UNCHANGED <<traitVars, invokeVars, jobVars, convVars>>

\* mutant: the description is stored before the root element is validated
DescribeResponseArrives_StoresFirst ==
  /\ mdPc = "awaiting"
  /\ mdPc' = "idle"
  /\ \E xml \in DescribeDocuments :
       /\ mdHandled' = Some(xml)
       /\ IF ~isDefined(xml) \/ ~isDefined(Get(xml).ProcessDescription)
          THEN /\ mdThrown' = Some(NewError(
                    "models.webProcessingService.processDescriptionErrorTitle",
                    "models.webProcessingService.processDescriptionErrorMessage"))
               /\ UNCHANGED processDescription
          ELSE /\ processDescription' = Get(xml).ProcessDescription
               /\ IF BadRoot(xml, "ProcessDescriptions")
                  THEN mdThrown' = Some(InvalidWpsServerError("DescribeProcess"))
                  ELSE UNCHANGED mdThrown
  /\ UNCHANGED <<traitVars, invokeVars, jobVars, convVars, loadCalls, describeRequests>>

\* forceLoadMetadata() after the DescribeProcess response arrived
DescribeResponseArrives ==
  /\ mdPc = "awaiting"
  /\ mdPc' = "idle"
  /\ \E xml \in DescribeDocuments :
       /\ mdHandled' = Some(xml)
       /\ IF BadRoot(xml, "ProcessDescriptions")
          THEN /\ mdThrown' = Some(InvalidWpsServerError("DescribeProcess"))
               /\ UNCHANGED processDescription
          ELSE IF ~isDefined(Get(xml).ProcessDescription)
          THEN /\ mdThrown' = Some(NewError(
                    "models.webProcessingService.processDescriptionErrorTitle",
                    "models.webProcessingService.processDescriptionErrorMessage"))
               /\ UNCHANGED processDescription
          ELSE /\ processDescription' = Get(xml).ProcessDescription
               /\ UNCHANGED mdThrown
  /\ UNCHANGED <<traitVars, invokeVars, jobVars, convVars, loadCalls, describeRequests>>

\* the DescribeProcess GET fails: forceLoadMetadata rejects
DescribeGetRejects ==
  /\ mdPc = "awaiting"
  /\ mdPc' = "idle"
  /\ mdThrown' = Some(NewError("RequestErrorEvent", ""))
  /\ UNCHANGED <<traitVars, invokeVars, jobVars, convVars, processDescription,
                 loadCalls, describeRequests, mdHandled>>

\* invoke(): returns when identifier or executeUrl is undefined; its body is empty
Invoke ==
  /\ invokeCalls < MaxInvokes
  /\ invokeCalls' = invokeCalls + 1
  /\ IF ~isDefined(identifier) \/ ~isDefined(executeUrl)
     THEN UNCHANGED executeRequests   \* return
     ELSE UNCHANGED executeRequests   \* nothing follows the guard
  /\ UNCHANGED <<traitVars, mdVars, jobVars, convVars>>

-----------------------------------------------------------------------------
\* Conversion runs

\* convertInputToParameter(this, input) on the drawn input
ConvertInputToParameter ==
  /\ parameter = <<>>
  /\ parameter' = <<convertInputToParameter(input)>>
  /\ UNCHANGED <<traitVars, mdVars, invokeVars, jobVars, input, parameters,
                 parameterValue, wpsInput>>

\* a read of the computed functionParameters
ReadFunctionParameters ==
  /\ parameters = <<>>
  /\ parameters' = <<functionParameters(processDescription)>>
  /\ UNCHANGED <<traitVars, mdVars, invokeVars, jobVars, input, parameter,
                 parameterValue, wpsInput>>

\* the values a user can give a parameter of each variant
PointValues ==
  <<[longitude |-> 3, latitude |-> 1, height |-> 0],
    [longitude |-> -2, latitude |-> -1, height |-> 10]>>

RectangleValues ==
  <<[west |-> -2, south |-> -1, east |-> 3, north |-> 1],
    [west |-> 0, south |-> 0, east |-> 1, north |-> 2]>>

\* the values of each variant, listed (values of different shapes are never
\* compared with each other)
ValuesOf(p) ==
  CASE p.variant = "enumeration" -> p.possibleValues
    [] p.variant = "string" -> <<"a", "">>
    [] p.variant = "dateTime" -> <<(<<"2020-01-01T00:00:00Z">>)>>
    [] p.variant = "point" -> PointValues
    [] p.variant = "line" -> <<(<<"[[135,45],[-90,-45]]">>)>>
    [] p.variant = "polygon" -> <<(<<"[[[135,45],[-90,-45],[0,0],[135,45]]]">>)>>
    [] p.variant = "rectangle" -> RectangleValues
    [] p.variant = "geojson" ->
         <<[subtype |-> "point", value |-> PointValues[1]],
           [subtype |-> "polygon",
            value |-> <<"[[[135,45],[-90,-45],[0,0],[135,45]]]">>],
           [subtype |-> "region", value |-> <<"region1">>]>>

\* the user gives the converted parameter a value (FunctionParameter.setValue)
SetValue ==
  /\ parameter # <<>>
  /\ isDefined(parameter[1])
  /\ parameterValue = Undefined
  /\ wpsInput = <<>>
  /\ \E i \in 1..Len(ValuesOf(Get(parameter[1]))) :
       parameterValue' = Some(ValuesOf(Get(parameter[1]))[i])
  /\ UNCHANGED <<traitVars, mdVars, invokeVars, jobVars, input, parameter, parameters,
                 wpsInput>>

\* convertParameterToInput(parameter) on the converted parameter
ConvertParameterToInput ==
  /\ parameter # <<>>
  /\ isDefined(parameter[1])
  /\ wpsInput = <<>>
  /\ wpsInput' = <<convertParameterToInput(Get(parameter[1]), parameterValue)>>
  /\ UNCHANGED <<traitVars, mdVars, invokeVars, jobVars, input, parameter, parameters,
                 parameterValue>>

-----------------------------------------------------------------------------
\* Specifications

DefaultInput == NewInput(Some("in1"), Undefined, Undefined, Undefined, Undefined)

InitJob ==
  /\ workbench = {}
  /\ pendingError = Undefined
  /\ loadPromise = Undefined
  /\ pc = "notStarted"
  /\ timer = Undefined
  /\ handled = Undefined
  /\ handledCount = 0
  /\ resultItem = Undefined
  /\ thrown = Undefined
  /\ statusGets = <<>>
  /\ removedByUser = FALSE

InitMetadata ==
  /\ processDescription = Undefined
  /\ mdPc = "idle"
  /\ loadCalls = 0
  /\ describeRequests = 0
  /\ mdThrown = Undefined
  /\ mdHandled = Undefined
  /\ invokeCalls = 0
  /\ executeRequests = <<>>

InitConv ==
  /\ input = DefaultInput
  /\ parameter = <<>>
  /\ parameters = <<>>
  /\ parameterValue = Undefined
  /\ wpsInput = <<>>

\* the execution / polling state machine of one job of a configured function
Init ==
  /\ identifier = Some("buffer")
  /\ url = Some("http://example.com/wps")
  /\ executeWithHttpGet = FALSE
  /\ InitMetadata
  /\ InitJob
  /\ InitConv

Next ==
  \/ WorkbenchAddPending
  \/ UserRemovesPending
  \/ ExecuteResponseArrives
  \/ RunLaterFires
  \/ StatusResponseArrives
  \/ StatusGetRejects
  \/ AddResultToWorkbench
  \/ ForceLoadMetadata
  \/ DescribeResponseArrives
  \/ DescribeGetRejects

Spec == Init /\ [][Next]_vars

\* the same machine with the event loop's guarantees: a scheduled runLater
\* callback runs, a status GET settles, and the awaited creation of the result
\* item resolves
Fairness ==
  /\ WF_vars(RunLaterFires)
  /\ WF_vars(StatusResponseArrives)
  /\ WF_vars(AddResultToWorkbench)

SpecFair == Init /\ [][Next]_vars /\ Fairness

\* the catalog function under every setting of its traits
InitFn ==
  /\ identifier \in {Undefined, Some("buffer")}
  /\ url \in {Undefined, Some("http://example.com/wps")}
  /\ executeWithHttpGet \in BOOLEAN
  /\ InitMetadata
  /\ InitJob
  /\ InitConv

NextFn ==
  \/ Invoke
  \/ ForceLoadMetadata
  \/ DescribeResponseArrives
  \/ DescribeGetRejects

SpecFn == InitFn /\ [][NextFn]_vars

\* the conversions applied to every drawn input and process description
InitConversions ==
  /\ identifier = Some("buffer")
  /\ url = Some("http://example.com/wps")
  /\ executeWithHttpGet = FALSE
  /\ mdPc = "idle"
  /\ loadCalls = 0
  /\ describeRequests = 0
  /\ mdThrown = Undefined
  /\ mdHandled = Undefined
  /\ invokeCalls = 0
  /\ executeRequests = <<>>
  /\ InitJob
  /\ parameter = <<>>
  /\ parameters = <<>>
  /\ parameterValue = Undefined
  /\ wpsInput = <<>>
  /\ \/ input \in Inputs /\ processDescription = Undefined
     \/ input = DefaultInput /\ processDescription \in ConvDescriptions

NextConversions ==
  \/ ConvertInputToParameter
  \/ ReadFunctionParameters
  \/ SetValue
  \/ ConvertParameterToInput

SpecConversions == InitConversions /\ [][NextConversions]_vars

-----------------------------------------------------------------------------
\* Vocabulary of the properties

\* a step in which handleExecuteResponse ran; Get(handled') is its document
HandlerRan == handledCount' = handledCount + 1

\* a step in which forceLoadMetadata handled a DescribeProcess response
DescribeHandled == mdPc = "awaiting" /\ mdPc' = "idle" /\ isDefined(mdHandled')

RootIs(xml, name) ==
  /\ isDefined(xml)
  /\ isDefined(Get(xml).root)
  /\ Get(Get(xml).root) = name

HasStatus(xml) == RootIs(xml, "ExecuteResponse") /\ isDefined(Get(xml).Status)
IsFailed(xml) == HasStatus(xml) /\ isDefined(Get(Get(xml).Status).ProcessFailed)
IsSucceeded(xml) ==
  /\ HasStatus(xml)
  /\ isDefined(Get(Get(xml).Status).ProcessSucceeded)
  /\ ~isDefined(Get(Get(xml).Status).ProcessFailed)
IsNonTerminal(xml) ==
  /\ HasStatus(xml)
  /\ ~isDefined(Get(Get(xml).Status).ProcessFailed)
  /\ ~isDefined(Get(Get(xml).Status).ProcessSucceeded)
LocationOf(xml) == Get(xml).statusLocation

ResultId == <<"result-", "job1">>
InvalidServerTitle == "models.webProcessingService.invalidWPSServerTitle"

-----------------------------------------------------------------------------
\* C1 as stated: whenever handleExecuteResponse receives a valid ExecuteResponse
\* whose Status has neither ProcessFailed nor ProcessSucceeded (and that names a
\* status location), it schedules a GET to that location after 500 ms.
C1_Original ==
  [][(HandlerRan /\ IsNonTerminal(Get(handled'))
        /\ isDefined(LocationOf(Get(handled'))))
       => timer' = Some([delay |-> 500, url |-> Get(LocationOf(Get(handled')))])]_vars

\* C1 amended: a non-terminal valid response is polled again exactly when it names
\* a status location and the pending item is in the workbench as it is handled:
\* then one GET to that location is scheduled after 500 ms, issued when the timer
\* fires, and its reply is handled by the same procedure; otherwise nothing is
\* scheduled. Status GETs are issued only after a non-terminal response, one each.
C1_PollingLoop ==
  /\ [][(HandlerRan /\ IsNonTerminal(Get(handled')))
          => IF isDefined(LocationOf(Get(handled'))) /\ PendingId \in workbench
             THEN /\ timer' = Some([delay |-> 500,
                                    url |-> Get(LocationOf(Get(handled')))])
                  /\ pc' = "polling"
             ELSE timer' = Undefined /\ pc' = "done"]_vars
  /\ [][(isDefined(timer) /\ ~isDefined(timer'))
          => /\ statusGets' = Append(statusGets, Get(timer).url)
             /\ pc' = "getting"]_vars
  /\ [][statusGets' # statusGets
          => /\ IsNonTerminal(Get(handled))
             /\ Len(statusGets') = handledCount
             /\ statusGets'[Len(statusGets')] = Get(LocationOf(Get(handled)))]_vars
  /\ [][(pc = "getting" /\ pc' # "getting") => (HandlerRan \/ isDefined(thrown'))]_vars

\* C1 witness: a second status GET was issued and its reply ended the loop
C1_Witness ==
  /\ Len(statusGets) = 2
  /\ handledCount = 3
  /\ IsSucceeded(Get(handled))
  /\ pc = "done"

-----------------------------------------------------------------------------
\* C2: a DescribeProcess response whose root is not ProcessDescriptions, and an
\* Execute or status response whose root is not ExecuteResponse (or a missing
\* document), fails with the invalid-WPS-server error; processDescription, the
\* workbench and the pending item are left unchanged and nothing is scheduled.
C2_RootValidation ==
  /\ [][(DescribeHandled /\ ~RootIs(Get(mdHandled'), "ProcessDescriptions"))
          => /\ isDefined(mdThrown') /\ Get(mdThrown').title = InvalidServerTitle
             /\ UNCHANGED <<processDescription, workbench, pendingError, loadPromise,
                            timer, statusGets, describeRequests>>]_vars
  /\ [][(HandlerRan /\ ~RootIs(Get(handled'), "ExecuteResponse"))
          => /\ isDefined(thrown') /\ Get(thrown').title = InvalidServerTitle
             /\ timer' = Undefined
             /\ pc' = "rejected"
             /\ UNCHANGED <<processDescription, workbench, pendingError, loadPromise,
                            resultItem, statusGets, describeRequests>>]_vars
  /\ [][pc = "rejected" => (pc' = "rejected" /\ UNCHANGED <<timer, statusGets>>)]_vars
  /\ [][(DescribeHandled /\ RootIs(Get(mdHandled'), "ProcessDescriptions"))
          => (~isDefined(mdThrown') \/ Get(mdThrown').title # InvalidServerTitle)]_vars
  /\ [][(HandlerRan /\ RootIs(Get(handled'), "ExecuteResponse"))
          => (~isDefined(thrown') \/ Get(thrown').title # InvalidServerTitle)]_vars

\* C2 witness: both a status response and a DescribeProcess response were rejected
\* for their root element
C2_Witness ==
  /\ handledCount = 2
  /\ isDefined(Get(handled)) /\ Get(Get(handled)).root = Some("ExceptionReport")
  /\ pc = "rejected"
  /\ isDefined(mdThrown) /\ Get(mdThrown).title = InvalidServerTitle
  /\ PendingId \in workbench

-----------------------------------------------------------------------------
\* whether reading functionParameters returns (every input is supported)
AcceptedBySome(in) ==
  /\ isDefined(in.Identifier)
  /\ \E i \in 1..Len(parameterConverters) :
       isDefined(inputToParameter(parameterConverters[i], in,
                                  Options(in, FALSE, parameterConverters[i])))

InputItems(pd) == Get(Get(Get(pd).DataInputs).Input).items

ParametersReadable ==
  \/ ~isDefined(processDescription)
  \/ /\ isDefined(Get(processDescription).DataInputs)
     /\ isDefined(Get(Get(processDescription).DataInputs).Input)
     /\ \A i \in 1..Len(InputItems(processDescription)) :
          AcceptedBySome(InputItems(processDescription)[i])

HandledSucceeded == isDefined(handled) /\ IsSucceeded(Get(handled))
HandledFailed == isDefined(handled) /\ IsFailed(Get(handled))

-----------------------------------------------------------------------------
\* the ExceptionText of a failed response's report, when it has a non-empty one
ReportText(xml) ==
  LET failed == Get(Get(Get(xml).Status).ProcessFailed)
  IN IF ~isDefined(failed.ExceptionReport) THEN Undefined
     ELSE IF ~isDefined(Get(failed.ExceptionReport).Exception) THEN Undefined
     ELSE Get(Get(failed.ExceptionReport).Exception).ExceptionText

\* C4: when a handled response has ProcessFailed, the pending item is marked as
\* error, with the report's exception text when it has one; no result item is
\* created or added, the pending item is not removed by the handler, and no
\* status GET is scheduled or issued afterwards.
C4_FailureReported ==
  /\ [][(HandlerRan /\ IsFailed(Get(handled')))
          => /\ isDefined(pendingError')
             /\ (isDefined(ReportText(Get(handled'))) /\ ReportText(Get(handled')) # Some(""))
                  => Get(pendingError').message = ReportText(Get(handled'))
             /\ pc' = "done"
             /\ timer' = Undefined
             /\ UNCHANGED <<workbench, resultItem>>]_vars
  /\ [](HandledFailed
          => /\ pc = "done" /\ timer = Undefined
             /\ resultItem = Undefined /\ ResultId \notin workbench
             /\ isDefined(pendingError))
  /\ [][HandledFailed
          => /\ UNCHANGED <<statusGets, handled, pendingError>>
             /\ (PendingId \in workbench /\ PendingId \notin workbench')
                  => removedByUser']_vars

\* C4 witness: a polled job failed with a report both marked ProcessFailed and
\* ProcessSucceeded, and the pending item carries the report's text
C4_Witness ==
  /\ HandledFailed
  /\ handledCount = 2
  /\ isDefined(Get(Get(Get(handled)).Status).ProcessSucceeded)
  /\ pendingError = Some([message |-> Some("boom")])
  /\ PendingId \in workbench

-----------------------------------------------------------------------------
\* C5 as stated: once the user has removed the pending item from the workbench,
\* no further GET to the status location is issued and no result item is added.
C5_Original ==
  [][(removedByUser /\ PendingId \notin workbench)
       => /\ statusGets' = statusGets
          /\ (ResultId \in workbench' => ResultId \in workbench)]_vars

-----------------------------------------------------------------------------
\* C6 as stated: with identifier and executeUrl defined every invoke has issued
\* one Execute request, by GET when executeWithHttpGet and by POST otherwise;
\* with either undefined no request is issued.
C6_Original ==
  IF isDefined(identifier) /\ isDefined(executeUrl)
  THEN /\ Len(executeRequests) = invokeCalls
       /\ \A i \in 1..Len(executeRequests) :
            executeRequests[i] = IF executeWithHttpGet THEN "GET" ELSE "POST"
  ELSE executeRequests = <<>>

-----------------------------------------------------------------------------
\* a status GET was answered with a ProcessSucceeded or ProcessFailed document
TerminalAnswered ==
  /\ handledCount >= 2
  /\ isDefined(handled)
  /\ (IsSucceeded(Get(handled)) \/ IsFailed(Get(handled)))

JobTerminal ==
  \/ ResultId \in workbench /\ PendingId \notin workbench
  \/ isDefined(pendingError)

-----------------------------------------------------------------------------
\* the registry order the documentation of the converters fixes
FixedOrder ==
  <<"LiteralData", "DateTime", "Point", "Line", "Polygon", "Rectangle",
    "GeoJsonGeometry">>

RequiredOf(in) == isDefined(in.minOccurs) /\ Get(in.minOccurs) > 0

\* the positions in FixedOrder of the converters that accept an identified input
Accepting(in) ==
  {i \in 1..Len(FixedOrder) :
     isDefined(inputToParameter(FixedOrder[i], in,
                                Options(in, RequiredOf(in), FixedOrder[i])))}

Least(S) == CHOOSE i \in S : \A j \in S : i <= j

\* C8: convertInputToParameter returns the parameter of the first converter, in
\* the order LiteralData, DateTime, Point, Line, Polygon, Rectangle,
\* GeoJsonGeometry, that accepts the input; the parameter records that converter,
\* has id = input.Identifier and is required iff minOccurs is defined and > 0; an
\* input without Identifier or accepted by no converter yields no parameter.
C8_FirstMatchWins ==
  parameter # <<>>
    => IF ~isDefined(input.Identifier) THEN parameter[1] = Undefined
       ELSE IF Accepting(input) = {} THEN parameter[1] = Undefined
       ELSE LET first == FixedOrder[Least(Accepting(input))]
            IN /\ parameter[1] =
                    inputToParameter(first, input,
                                     Options(input, RequiredOf(input), first))
               /\ Get(parameter[1]).converter = first
               /\ Get(parameter[1]).id = Get(input.Identifier)
               /\ Get(parameter[1]).isRequired = RequiredOf(input)

\* C8 witness: a required input that both the Point and the GeoJsonGeometry
\* converter accept became a point parameter
C8_Witness ==
  /\ parameter # <<>>
  /\ isDefined(input.Identifier)
  /\ {3, 7} \subseteq Accepting(input)
  /\ isDefined(parameter[1])
  /\ Get(parameter[1]).variant = "point"
  /\ Get(parameter[1]).isRequired

-----------------------------------------------------------------------------
AcceptingNames(in) == {FixedOrder[i] : i \in Accepting(in)}

\* the number of data kinds the input carries
DataKinds(in) ==
  Cardinality({k \in {"LiteralData", "ComplexData", "BoundingBoxData"} :
                 isDefined(in[k])})

\* C9 as stated, for the inputs a DescribeProcess document normally carries (an
\* Identifier and at most one data kind): at most one converter of the registry
\* returns a parameter from inputToParameter.
C9_Original ==
  (parameter # <<>> /\ isDefined(input.Identifier) /\ DataKinds(input) <= 1)
    => Cardinality(Accepting(input)) <= 1

\* C9 amended: for an input carrying at most one data kind, at most one of the
\* converters other than GeoJsonGeometry accepts it, and no input is accepted by
\* two of DateTime, Point, Line, Polygon; GeoJsonGeometry accepts every input that
\* Point, Line or Polygon accepts, so for those inputs the variant chosen is the
\* earlier converter's and depends on the registry order.
C9_ExclusiveButGeoJson ==
  (parameter # <<>> /\ isDefined(input.Identifier))
    => LET acc == AcceptingNames(input)
       IN /\ DataKinds(input) <= 1 => Cardinality(acc \ {"GeoJsonGeometry"}) <= 1
          /\ Cardinality(acc \cap {"DateTime", "Point", "Line", "Polygon"}) <= 1
          /\ acc \cap {"Point", "Line", "Polygon"} # {} => "GeoJsonGeometry" \in acc
          /\ acc \cap {"Point", "Line", "Polygon"} # {}
               => /\ isDefined(parameter[1])
                  /\ Get(parameter[1]).variant # "geojson"
                  /\ Get(convertInputToParameterWith(
                           <<"GeoJsonGeometry", "LiteralData", "DateTime", "Point",
                             "Line", "Polygon", "Rectangle">>, input)).variant
                       \in {"geojson", "enumeration", "string"}

\* C9 witness: a ComplexData-only input accepted by exactly the Polygon and the
\* GeoJsonGeometry converters
C9_Witness ==
  /\ parameter # <<>>
  /\ isDefined(input.Identifier)
  /\ DataKinds(input) = 1
  /\ AcceptingNames(input) = {"Polygon", "GeoJsonGeometry"}

-----------------------------------------------------------------------------
\* C10: a read of functionParameters over a process description with inputs
\* returns one parameter per input, in input order, when every input has an
\* Identifier and is accepted by some converter; otherwise it throws
\* 'Unsupported parameter type' and yields no parameter list.
C10_AllOrNothing ==
  (/\ parameters # <<>>
   /\ isDefined(processDescription)
   /\ isDefined(Get(processDescription).DataInputs)
   /\ isDefined(Get(Get(processDescription).DataInputs).Input))
    => LET list == InputItems(processDescription)
           result == parameters[1]
       IN IF \A i \in 1..Len(list) : AcceptedBySome(list[i])
          THEN /\ result.threw = Undefined
               /\ Len(result.value) = Len(list)
               /\ \A i \in 1..Len(list) :
                    /\ result.value[i].id = Get(list[i].Identifier)
                    /\ Some(result.value[i]) = convertInputToParameter(list[i])
          ELSE /\ result.threw = Some("Unsupported parameter type")
               /\ result.value = <<>>

\* C10 witness: the read threw on an unsupported input that follows a supported one
C10_Witness ==
  /\ parameters # <<>>
  /\ isDefined(processDescription)
  /\ isDefined(Get(processDescription).DataInputs)
  /\ isDefined(Get(Get(processDescription).DataInputs).Input)
  /\ Len(InputItems(processDescription)) >= 2
  /\ AcceptedBySome(InputItems(processDescription)[1])
  /\ ~AcceptedBySome(InputItems(processDescription)[2])
  /\ parameters[1].threw = Some("Unsupported parameter type")

-----------------------------------------------------------------------------
\* the data kind a converter reads from an input and writes as inputType
KindOf(converter) ==
  CASE converter = "LiteralData" -> "LiteralData"
    [] converter = "Rectangle" -> "BoundingBoxData"
    [] OTHER -> "ComplexData"

\* convertParameterToInput returned an input
InputYielded ==
  /\ wpsInput # <<>>
  /\ wpsInput[1].threw = Undefined
  /\ isDefined(wpsInput[1].value)

-----------------------------------------------------------------------------
\* a step in which a call of forceLoadMetadata begins
LoadCalled == loadCalls' = loadCalls + 1

\* a step in which a call of forceLoadMetadata ends in failure
LoadFailed == mdPc = "awaiting" /\ mdPc' = "idle" /\ isDefined(mdThrown')

\* C12: forceLoadMetadata assigns processDescription only when the
\* DescribeProcess response has root ProcessDescriptions and contains a
\* ProcessDescription, and then to that description; with describeProcessUrl
\* undefined it issues no request; on every failure (bad root, missing
\* ProcessDescription, failed GET) processDescription keeps its value. While
\* processDescription is undefined, inputs is empty and storeSupported and
\* statusSupported are false.
C12_MetadataAtomic ==
  /\ [][processDescription' # processDescription
          => /\ DescribeHandled
             /\ RootIs(Get(mdHandled'), "ProcessDescriptions")
             /\ isDefined(Get(Get(mdHandled')).ProcessDescription)
             /\ processDescription' = Get(Get(mdHandled')).ProcessDescription
             /\ UNCHANGED mdThrown]_vars
  /\ [][(DescribeHandled /\ RootIs(Get(mdHandled'), "ProcessDescriptions")
          /\ isDefined(Get(Get(mdHandled')).ProcessDescription))
          => processDescription' = Get(Get(mdHandled')).ProcessDescription]_vars
  /\ [][(LoadCalled /\ (~isDefined(url) \/ ~isDefined(identifier)))
          => UNCHANGED <<describeRequests, mdPc, processDescription, mdThrown>>]_vars
  /\ [][describeRequests' # describeRequests
          => /\ LoadCalled
             /\ isDefined(url) /\ isDefined(identifier)
             /\ describeRequests' = describeRequests + 1]_vars
  /\ [][LoadFailed => UNCHANGED processDescription]_vars
  /\ [][(DescribeHandled /\ ~(/\ RootIs(Get(mdHandled'), "ProcessDescriptions")
                              /\ isDefined(Get(Get(mdHandled')).ProcessDescription)))
          => LoadFailed]_vars
  /\ [](~isDefined(processDescription)
          => /\ inputs(processDescription) = [threw |-> <<>>, value |-> <<>>]
             /\ ~storeSupported(processDescription)
             /\ ~statusSupported(processDescription))

\* C12 witness: after a first load stored a description, a second load failed on
\* a response without ProcessDescription and the description is still the first
C12_Witness ==
  /\ loadCalls = 2
  /\ describeRequests = 2
  /\ mdPc = "idle"
  /\ isDefined(mdThrown)
  /\ Get(mdThrown).title = "models.webProcessingService.processDescriptionErrorTitle"
  /\ isDefined(processDescription)
  /\ storeSupported(processDescription)

-----------------------------------------------------------------------------
\* a document with root ExecuteResponse and no Status element
LacksStatus(xml) == RootIs(xml, "ExecuteResponse") /\ ~isDefined(Get(xml).Status)

HandledLacksStatus == isDefined(handled) /\ LacksStatus(Get(handled))

InvalidResponseTitle == "models.webProcessingService.invalidResponseErrorTitle"

\* C13: whenever handleExecuteResponse receives a valid ExecuteResponse without
\* Status, as the first response or as the reply to any poll, it rejects with
\* the invalid-response error: the pending item is not marked as error and not
\* removed by the handler, no result item is created or added, and no poll is
\* scheduled or issued then or afterwards.
C13_MissingStatusRejected ==
  /\ [][(HandlerRan /\ LacksStatus(Get(handled')))
          => /\ isDefined(thrown')
             /\ Get(thrown').title = InvalidResponseTitle
             /\ pc' = "rejected"
             /\ timer' = Undefined
             /\ UNCHANGED <<workbench, pendingError, resultItem, statusGets,
                            loadPromise>>]_vars
  /\ [](HandledLacksStatus
          => /\ pc = "rejected"
             /\ timer = Undefined
             /\ pendingError = Undefined
             /\ resultItem = Undefined
             /\ ResultId \notin workbench
             /\ isDefined(thrown) /\ Get(thrown).title = InvalidResponseTitle)
  /\ [][HandledLacksStatus
          => /\ UNCHANGED <<statusGets, handled, handledCount, timer, pendingError>>
             /\ (PendingId \in workbench /\ PendingId \notin workbench')
                  => removedByUser']_vars
  /\ [][(HandlerRan /\ isDefined(thrown')
          /\ Get(thrown').title = InvalidResponseTitle)
          => LacksStatus(Get(handled'))]_vars

\* C13 witness: the reply to the second poll had no Status; handling rejected
\* and the unmarked pending item is still in the workbench
C13_Witness ==
  /\ HandledLacksStatus
  /\ handledCount = 3
  /\ Len(statusGets) = 2
  /\ pc = "rejected"
  /\ PendingId \in workbench
  /\ pendingError = Undefined

-----------------------------------------------------------------------------
\* the spellings of CRS84 and of EPSG:4326 a server can advertise
IsCrs84(crs) == crs \in {CRS84_URN, CRS84_URN_LOWER}
IsEpsg4326(crs) == crs \in {EPSG_4326, EPSG_4326_LOWER}

\* a rectangle parameter was serialized
RectangleSerialized ==
  /\ wpsInput # <<>>
  /\ isDefined(parameter[1])
  /\ Get(parameter[1]).variant = "rectangle"

Degrees(radians) == ToString(toDegrees(radians))

\* C14 as stated: a rectangle parameter whose CRS is CRS84, in whatever spelling
\* the server advertised it, is serialized as
\* 'west,south,east,north,urn:ogc:def:crs:OGC:1.3:CRS84'; one whose CRS is
\* EPSG:4326 as 'south,west,north,east,urn:ogc:def:crs:EPSG:6.6:4326'; a
\* rectangle parameter with no value yields no input.
C14_Original ==
  RectangleSerialized
    => LET crs == Get(Get(parameter[1]).crs)
           out == wpsInput[1]
       IN IF ~isDefined(parameterValue)
          THEN out.threw = Undefined /\ out.value = Undefined
          ELSE LET v == Get(parameterValue)
               IN /\ IsCrs84(crs)
                       => /\ InputYielded
                          /\ Get(out.value).inputValue =
                               <<Degrees(v.west), ",", Degrees(v.south), ",",
                                 Degrees(v.east), ",", Degrees(v.north), ",",
                                 "urn:ogc:def:crs:OGC:1.3:", "CRS84">>
                  /\ IsEpsg4326(crs)
                       => /\ InputYielded
                          /\ Get(out.value).inputValue =
                               <<Degrees(v.south), ",", Degrees(v.west), ",",
                                 Degrees(v.north), ",", Degrees(v.east), ",",
                                 "urn:ogc:def:crs:EPSG:6.6:", "4326">>

-----------------------------------------------------------------------------
\* the server strings that denote Terria's CRS (EPSG:4326, and CRS84 which has
\* the same datum), in the spellings a server can advertise
DenotesTerriaCrs(crs) == IsEpsg4326(crs) \/ IsCrs84(crs)

DefaultCrsOf(in) ==
  IF ~isDefined(Get(in.BoundingBoxData).Default) THEN Undefined
  ELSE Get(Get(in.BoundingBoxData).Default).CRS

SupportedCrsOf(in) ==
  IF ~isDefined(Get(in.BoundingBoxData).Supported) THEN <<>>
  ELSE IF ~isDefined(Get(Get(in.BoundingBoxData).Supported).CRS) THEN <<>>
  ELSE Get(Get(Get(in.BoundingBoxData).Supported).CRS)

TerriaCrsOffered(in) ==
  \/ isDefined(DefaultCrsOf(in)) /\ DenotesTerriaCrs(Get(DefaultCrsOf(in)))
  \/ \E i \in 1..Len(SupportedCrsOf(in)) : DenotesTerriaCrs(SupportedCrsOf(in)[i])

\* the default CRS if it denotes Terria's CRS, else the first supported that does
TerriaCrsString(in) ==
  IF isDefined(DefaultCrsOf(in)) /\ DenotesTerriaCrs(Get(DefaultCrsOf(in)))
  THEN Get(DefaultCrsOf(in))
  ELSE SupportedCrsOf(in)[Least({i \in 1..Len(SupportedCrsOf(in)) :
                                  DenotesTerriaCrs(SupportedCrsOf(in)[i])})]

\* convertInputToParameter returned what RectangleConverter made of the input
RectangleMade ==
  /\ parameter # <<>>
  /\ isDefined(parameter[1])
  /\ Get(parameter[1]).converter = "Rectangle"

\* C15 as stated: RectangleConverter makes a rectangle parameter of a
\* BoundingBoxData input only when Terria's CRS is the input's default CRS or
\* one of its supported CRSs, and the parameter's crs is then the server string
\* that denotes Terria's CRS (the default if it matches, else the first matching
\* supported entry); of every other BoundingBoxData input it makes nothing.
C15_Original ==
  RectangleMade
    => /\ isDefined(input.BoundingBoxData)
       /\ TerriaCrsOffered(input)
       /\ Get(parameter[1]).crs = Some(TerriaCrsString(input))

====
